---- MODULE Spec2Model ----
(***************************************************************************)
(* A model of fd (src/main.rs): main parses the command line, derives the  *)
(* FdOptions, compiles the pattern and calls scan, which walks the current *)
(* directory with walkdir, filters the entries and prints the ones whose   *)
(* relative path (or file name) the pattern finds.                         *)
(*                                                                         *)
(* Strings are sequences of one-character strings.  A path is a sequence   *)
(* of components (file names); it is rendered with "/" between them.       *)
(* The standard streams are taken to be writable.                          *)
(***************************************************************************)
EXTENDS Integers, Sequences, FiniteSets, TLC

VARIABLES
    argv,       \* env::args() without the program name
    cwd,        \* the current directory: [ok, path], path a sequence of names
    fs,         \* the nodes below the current directory, in read_dir order
    pc,         \* "main" | "scan" | "exit"
    config,     \* FdOptions once built, NoConfig before
    pattern,    \* the pattern string handed to RegexBuilder
    start,      \* walkdir IntoIter.start: the root is still to be yielded
    stack,      \* walkdir IntoIter.stack_list: one list of items per open dir
    yielded,    \* every item the WalkDir iterator has produced, in order
    printed,    \* the lines print_entry wrote to stdout, in order
    usage,      \* the usage text has been written to stdout
    stderr,     \* number of diagnostic lines written by error()
    exit_code   \* process exit status, NoExit while running

vars == <<argv, cwd, fs, pc, config, pattern, start, stack, yielded, printed,
          usage, stderr, exit_code>>

-----------------------------------------------------------------------------
(* Text *)

UpperChars == <<"A","B","C","D","E","F","G","H","I","J","K","L","M",
                "N","O","P","Q","R","S","T","U","V","W","X","Y","Z">>
LowerChars == <<"a","b","c","d","e","f","g","h","i","j","k","l","m",
                "n","o","p","q","r","s","t","u","v","w","x","y","z">>

\* char::is_uppercase
IsUppercase(c) == \E i \in DOMAIN UpperChars : UpperChars[i] = c

\* simple case folding as the regex engine applies it under case_insensitive
Fold(c) ==
    IF IsUppercase(c)
    THEN LowerChars[CHOOSE i \in DOMAIN UpperChars : UpperChars[i] = c]
    ELSE c

\* a byte sequence that is not valid UTF-8, written as one pseudo character
BadByte == "\\xFF"

None == [some |-> FALSE]
Some(v) == [some |-> TRUE, val |-> v]

\* OsStr::to_str / Path::to_str on one name: None unless valid UTF-8
ToStr(name) ==
    IF \E i \in DOMAIN name : name[i] = BadByte THEN None ELSE Some(name)

StartsWith(s, p) ==
    /\ Len(s) >= Len(p)
    /\ \A i \in DOMAIN p : s[i] = p[i]

RECURSIVE JoinPath(_)
\* the text of a relative path: its components with "/" between them
JoinPath(comps) ==
    IF comps = <<>> THEN <<>>
    ELSE IF Len(comps) = 1 THEN comps[1]
    ELSE comps[1] \o <<"/">> \o JoinPath(Tail(comps))

\* Path::to_str on a path: None as soon as one component is not UTF-8
PathToStr(comps) ==
    IF \E i \in DOMAIN comps : ~ToStr(comps[i]).some
    THEN None
    ELSE Some(JoinPath(comps))

\* Path::strip_prefix
StripPrefix(path, base) ==
    IF Len(path) >= Len(base) /\ SubSeq(path, 1, Len(base)) = base
    THEN [ok |-> TRUE, rel |-> SubSeq(path, Len(base) + 1, Len(path))]
    ELSE [ok |-> FALSE]

-----------------------------------------------------------------------------
(* The pattern engine: the fragment of regex syntax the inputs use.        *)
(* "^" asserts the start of the text, "." is any character, "(" opens a    *)
(* group and ")" closes one; every other character is a literal.           *)

RECURSIVE Balanced(_, _, _)
Balanced(p, k, open) ==
    IF k > Len(p) THEN open = 0
    ELSE IF p[k] = "(" THEN Balanced(p, k + 1, open + 1)
    ELSE IF p[k] = ")" THEN open > 0 /\ Balanced(p, k + 1, open - 1)
    ELSE Balanced(p, k + 1, open)

\* RegexBuilder::new(p).build() is Ok
Compiles(p) == Balanced(p, 1, 0)

CharMatches(pc_, c, insensitive) ==
    \/ pc_ = "."
    \/ pc_ = c
    \/ insensitive /\ Fold(pc_) = Fold(c)

RECURSIVE MatchHere(_, _, _, _, _)
\* the pattern from token k on matches the text from position j on
MatchHere(p, k, s, j, insensitive) ==
    IF k > Len(p) THEN TRUE
    ELSE IF p[k] = "^" THEN j = 1 /\ MatchHere(p, k + 1, s, j, insensitive)
    ELSE IF p[k] \in {"(", ")"} THEN MatchHere(p, k + 1, s, j, insensitive)
    ELSE /\ j <= Len(s)
         /\ CharMatches(p[k], s[j], insensitive)
         /\ MatchHere(p, k + 1, s, j + 1, insensitive)

\* Regex::find(s).is_some(): an unanchored search
Find(re, s) ==
    \E j \in 1..(Len(s) + 1) : MatchHere(re.pat, 1, s, j, re.insensitive)

-----------------------------------------------------------------------------
(* getopts *)

ShortOpts == [h |-> "help", s |-> "sensitive", f |-> "filename",
              F |-> "follow", n |-> "no-color"]

LongHelp      == <<"-","-","h","e","l","p">>
LongSensitive == <<"-","-","s","e","n","s","i","t","i","v","e">>
LongFilename  == <<"-","-","f","i","l","e","n","a","m","e">>
LongHidden    == <<"-","-","h","i","d","d","e","n">>
LongFollow    == <<"-","-","f","o","l","l","o","w">>
LongNoColor   == <<"-","-","n","o","-","c","o","l","o","r">>

LongOpts == {<<LongHelp, "help">>, <<LongSensitive, "sensitive">>,
             <<LongFilename, "filename">>, <<LongHidden, "hidden">>,
             <<LongFollow, "follow">>, <<LongNoColor, "no-color">>}

IsLong(arg)  == Len(arg) > 2 /\ arg[1] = "-" /\ arg[2] = "-"
IsShort(arg) == Len(arg) > 1 /\ arg[1] = "-" /\ arg[2] # "-"

\* the option names one argument sets, as a sequence; <<"?">> if unrecognized
OptsOf(arg) ==
    IF IsLong(arg)
    THEN IF \E lo \in LongOpts : lo[1] = arg
         THEN <<(CHOOSE lo \in LongOpts : lo[1] = arg)[2]>>
         ELSE <<"?">>
    ELSE [i \in 1..(Len(arg) - 1) |->
             IF arg[i + 1] \in DOMAIN ShortOpts THEN ShortOpts[arg[i + 1]]
             ELSE "?"]

RECURSIVE ParseFrom(_, _, _)
\* Options::parse: every flag is an optflag, so a flag given twice and an
\* unknown flag are errors; everything else is a free argument
ParseFrom(args, present, free) ==
    IF args = <<>> THEN [ok |-> TRUE, present |-> present, free |-> free]
    ELSE LET arg == Head(args) IN
         IF IsLong(arg) \/ IsShort(arg)
         THEN LET os == OptsOf(arg) IN
              IF \/ \E i \in DOMAIN os : os[i] = "?" \/ os[i] \in present
                 \/ \E i, j \in DOMAIN os : i # j /\ os[i] = os[j]
              THEN [ok |-> FALSE, present |-> {}, free |-> <<>>]
              ELSE ParseFrom(Tail(args),
                             present \cup {os[i] : i \in DOMAIN os}, free)
         ELSE ParseFrom(Tail(args), present, Append(free, arg))

Parse(args) == ParseFrom(args, {}, <<>>)

OptPresent(m, name) == name \in m.present

-----------------------------------------------------------------------------
(* The file system.  Node 0 is the current directory; fs[i] is the i-th    *)
(* node below it: [name, type, parent], parent < i.  read_dir lists the    *)
(* children of a directory in index order.                                 *)
(*   "file"        regular file                                            *)
(*   "dir"         directory                                               *)
(*   "baddir"      directory that read_dir cannot open (permission denied) *)
(*   "gone"        entry whose file type cannot be read any more           *)
(*   "linkdir"     symbolic link to ExtDir, a directory outside the tree   *)
(*   "linkfile"    symbolic link to a regular file outside the tree        *)
(*   "linkbroken"  symbolic link whose target does not exist               *)
(*   "linkloop"    symbolic link to the current directory                  *)

NodeTypes == {"file", "dir", "baddir", "gone",
              "linkdir", "linkfile", "linkbroken", "linkloop"}
LinkTypes == {"linkdir", "linkfile", "linkbroken", "linkloop"}

ReadmeLower == <<"r","e","a","d","m","e",".","m","d">>
ReadmeUpper == <<"R","E","A","D","M","E",".","m","d">>
ReadmeMixed == <<"R","e","a","d","m","e",".","m","d">>

\* the directory the "linkdir" links point to holds one regular file
ExtNames == <<ReadmeLower>>

\* where a path leads: a node of fs, ExtDir (ext 0), its k-th file (ext k),
\* the file a "linkfile" points to (extfile), or nothing
Loc(in_, id) == [in |-> in_, id |-> id]
Nowhere == Loc("none", 0)

Children(f, d) == SelectSeq([i \in 1..Len(f) |-> i], LAMBDA i : f[i].parent = d)

\* symlink_metadata: the type of the thing itself
LKind(f, loc) ==
    IF loc.in = "fs"
    THEN IF loc.id = 0 THEN "dir"
         ELSE LET t == f[loc.id].type IN
              IF t \in LinkTypes THEN "symlink"
              ELSE IF t = "gone" THEN "none"
              ELSE IF t = "baddir" THEN "dir"
              ELSE t
    ELSE IF loc.in = "ext" THEN (IF loc.id = 0 THEN "dir" ELSE "file")
    ELSE IF loc.in = "extfile" THEN "file"
    ELSE "none"

\* the target of the symbolic link at loc (loc itself when it is no link)
Target(f, loc) ==
    IF loc.in = "fs" /\ loc.id > 0 /\ f[loc.id].type \in LinkTypes
    THEN LET t == f[loc.id].type IN
         IF t = "linkdir" THEN Loc("ext", 0)
         ELSE IF t = "linkfile" THEN Loc("extfile", 0)
         ELSE IF t = "linkloop" THEN Loc("fs", 0)
         ELSE Nowhere
    ELSE loc

\* fs::metadata: the type after following a symbolic link
Kind(f, loc) == LKind(f, Target(f, loc))

\* the entry called name in the directory dir (dir already followed)
Child(f, dir, name) ==
    IF dir.in = "fs"
    THEN LET cs == Children(f, dir.id) IN
         IF \E k \in DOMAIN cs : f[cs[k]].name = name
         THEN Loc("fs", cs[CHOOSE k \in DOMAIN cs : f[cs[k]].name = name])
         ELSE Nowhere
    ELSE IF dir.in = "ext" /\ dir.id = 0
    THEN IF \E k \in DOMAIN ExtNames : ExtNames[k] = name
         THEN Loc("ext", CHOOSE k \in DOMAIN ExtNames : ExtNames[k] = name)
         ELSE Nowhere
    ELSE Nowhere

RECURSIVE LookupFrom(_, _, _)
\* path resolution below loc; intermediate symbolic links are followed
LookupFrom(f, loc, comps) ==
    IF comps = <<>> THEN loc
    ELSE LET dir == Target(f, loc) IN
         IF LKind(f, dir) # "dir" \/ (dir.in = "fs" /\ dir.id > 0 /\ f[dir.id].type = "baddir")
         THEN Nowhere
         ELSE LookupFrom(f, Child(f, dir, Head(comps)), Tail(comps))

\* the process resolves a relative path against its current directory
Lookup(f, rel) == LookupFrom(f, Loc("fs", 0), rel)

\* Path::is_file and Path::is_dir follow symbolic links
IsFile(f, rel) == Kind(f, Lookup(f, rel)) = "file"
IsDir(f, rel)  == Kind(f, Lookup(f, rel)) = "dir"

-----------------------------------------------------------------------------
(* walkdir: what WalkDir::new(root).follow_links(b).into_iter() yields.    *)
(* A list on the stack holds the items read_dir has still to hand out:     *)
(* [loc, path, rderr]; rderr marks the error of a read_dir that failed.    *)

RawItem(loc, path) == [loc |-> loc, path |-> path, rderr |-> FALSE]

\* fs::read_dir on the directory dir (already followed) reached as path
ReadDir(f, dir, path) ==
    IF dir.in = "fs" /\ dir.id > 0 /\ f[dir.id].type = "baddir"
    THEN <<[loc |-> dir, path |-> path, rderr |-> TRUE]>>
    ELSE IF dir.in = "fs"
    THEN LET cs == Children(f, dir.id) IN
         [k \in DOMAIN cs |-> RawItem(Loc("fs", cs[k]), Append(path, f[cs[k]].name))]
    ELSE [k \in DOMAIN ExtNames |-> RawItem(Loc("ext", k), Append(path, ExtNames[k]))]

Entry(it, ftype, link) ==
    [path |-> it.path, ftype |-> ftype, link |-> link, loc |-> it.loc]

Err(it)    == [ok |-> FALSE, ent |-> Entry(it, "none", FALSE), push |-> FALSE, list |-> <<>>]
Leaf(e)    == [ok |-> TRUE, ent |-> e, push |-> FALSE, list |-> <<>>]
Opened(e, l) == [ok |-> TRUE, ent |-> e, push |-> TRUE, list |-> l]

\* IntoIter::handle_entry: the entry an item becomes, and the list pushed
\* for it when it is a directory.  With follow_links a link is replaced by
\* its target (an error if that is missing, or a directory being walked).
HandleEntry(f, follow, it) ==
    IF it.rderr THEN Err(it)
    ELSE LET lk == LKind(f, it.loc)
             tg == Target(f, it.loc)
         IN IF lk = "none" THEN Err(it)
            ELSE IF lk = "symlink"
            THEN IF ~follow THEN Leaf(Entry(it, "symlink", TRUE))
                 ELSE IF LKind(f, tg) = "none" THEN Err(it)
                 ELSE IF LKind(f, tg) = "file" THEN Leaf(Entry(it, "file", TRUE))
                 ELSE IF tg = Loc("fs", 0) THEN Err(it)
                 ELSE Opened(Entry(it, "dir", TRUE), ReadDir(f, tg, it.path))
            ELSE IF lk = "dir"
            THEN Opened(Entry(it, "dir", FALSE), ReadDir(f, it.loc, it.path))
            ELSE Leaf(Entry(it, "file", FALSE))

RECURSIVE Pending(_)
\* IntoIter::next pops the lists that are used up
Pending(st) ==
    IF st = <<>> THEN <<>>
    ELSE IF Head(st) = <<>> THEN Pending(Tail(st))
    ELSE st

\* IntoIter::skip_current_dir
SkipCurrentDir(st) == IF st = <<>> THEN st ELSE Tail(st)

\* DirEntry::file_name: the last component, or the whole path if it has none
FileName(path) == IF path = <<>> THEN <<"/">> ELSE path[Len(path)]

-----------------------------------------------------------------------------
(* scan *)

\* is_hidden
IsHidden(ent) ==
    LET s == ToStr(FileName(ent.path)) IN
    IF s.some THEN StartsWith(s.val, <<".">>) ELSE FALSE

\* the predicate handed to filter_entry
KeepEntry(cfg, ent) == cfg.search_hidden \/ ~IsHidden(ent)

\* filter_entry taken for a plain filter: the rejected entry is dropped but
\* the list pushed for it stays
FilterEntryKeepsList(cfg, h, st) == st

\* .filter_entry(..): an entry the predicate rejects is dropped and, when
\* it is a directory, the list just pushed for it is taken off again
FilterEntry(cfg, h, st) ==
    IF h.ok /\ ~KeepEntry(cfg, h.ent) /\ h.ent.ftype = "dir"
    THEN SkipCurrentDir(st)
    ELSE st

\* the filter on the root left out
NotRootMissing(ent, root) == TRUE

\* .filter(|e| e.path() != root)
NotRoot(ent, root) == ent.path # root

\* print_entry: the line written, with the colour it is painted in
PrintEntry(f, root, ent, path_str, cfg) ==
    IF cfg.colored
    THEN LET rel == StripPrefix(ent.path, root).rel
             style == IF ent.link THEN "Purple"
                      ELSE IF IsDir(f, rel) THEN "Cyan"
                      ELSE "White"
         IN [text |-> path_str, style |-> style]
    ELSE [text |-> path_str, style |-> "Plain"]

\* the loop body without the is_file test of filename-only mode
ScanBodyNoFileTest(f, root, re, cfg, ent) ==
    LET sp == StripPrefix(ent.path, root) IN
    IF ~sp.ok THEN <<>>
    ELSE LET ps == PathToStr(sp.rel) IN
         IF ~ps.some THEN <<>>
         ELSE LET res ==
                  IF cfg.search_full_path THEN Find(re, ps.val)
                  ELSE IF sp.rel = <<>> THEN FALSE
                  ELSE LET fname == ToStr(sp.rel[Len(sp.rel)]) IN
                       fname.some /\ Find(re, fname.val)
              IN IF res THEN <<PrintEntry(f, root, ent, ps.val, cfg)>>
                 ELSE <<>>

\* the body of the for loop: the lines it prints for one entry (none or one)
ScanBody(f, root, re, cfg, ent) ==
    LET sp == StripPrefix(ent.path, root) IN
    IF ~sp.ok THEN <<>>
    ELSE LET ps == PathToStr(sp.rel) IN
         IF ~ps.some THEN <<>>
         ELSE LET res ==
                  IF cfg.search_full_path THEN Find(re, ps.val)
                  ELSE IF ~IsFile(f, sp.rel) THEN FALSE
                  ELSE IF sp.rel = <<>> THEN FALSE
                  ELSE LET fname == ToStr(sp.rel[Len(sp.rel)]) IN
                       fname.some /\ Find(re, fname.val)
              IN IF res THEN <<PrintEntry(f, root, ent, ps.val, cfg)>>
                 ELSE <<>>

\* the walker made to follow links whatever the configuration says
WalkerFollowsAlways(cfg) == TRUE

\* .follow_links(config.follow_links)
WalkerFollows(cfg) == cfg.follow_links

\* one item pulled through the iterator chain of scan and, if it gets that
\* far, through the loop body: what it was, the lines printed, the new stack
ScanStep(f, root, re, cfg, st_start, st) ==
    LET pend == Pending(st)
        it   == IF st_start THEN RawItem(Loc("fs", 0), root) ELSE Head(Head(pend))
        rest == IF st_start THEN st ELSE <<Tail(Head(pend))>> \o Tail(pend)
        h    == HandleEntry(f, WalkerFollows(cfg), it)
        st1  == IF h.push THEN <<h.list>> \o rest ELSE rest
        st2  == FilterEntry(cfg, h, st1)
        cls  == IF ~h.ok THEN "error"
                ELSE IF ~KeepEntry(cfg, h.ent) THEN "pruned"
                ELSE IF ~NotRoot(h.ent, root) THEN "root"
                ELSE "entry"
    IN [item  |-> [ok |-> h.ok, ent |-> h.ent],
        cls   |-> cls,
        lines |-> IF cls = "entry" THEN ScanBody(f, root, re, cfg, h.ent) ELSE <<>>,
        stack |-> st2]

\* the walker has nothing left
Exhausted(st_start, st) == ~st_start /\ Pending(st) = <<>>

RECURSIVE ScanFrom(_, _, _, _, _, _)
\* every line scan prints from a walker state on, in order
ScanFrom(f, root, re, cfg, st_start, st) ==
    IF Exhausted(st_start, st) THEN <<>>
    ELSE LET r == ScanStep(f, root, re, cfg, st_start, st) IN
         r.lines \o ScanFrom(f, root, re, cfg, FALSE, r.stack)

\* the output of scan(root, re, cfg)
ScanOutput(f, root, re, cfg) == ScanFrom(f, root, re, cfg, TRUE, <<>>)

-----------------------------------------------------------------------------
(* main *)

NoExit == -1
EmptyPattern == <<>>

\* let pattern = matches.free.get(0).unwrap_or(&empty)
PatternOf(m) == IF m.free = <<>> THEN EmptyPattern ELSE m.free[1]

\* FdOptions without smart case: only the flag makes the search sensitive
MakeConfigNoSmartCase(m, pat) ==
    [case_sensitive   |-> OptPresent(m, "sensitive"),
     search_full_path |-> ~OptPresent(m, "filename"),
     search_hidden    |-> OptPresent(m, "hidden"),
     colored          |-> ~OptPresent(m, "no-color"),
     follow_links     |-> OptPresent(m, "follow")]

\* the FdOptions main builds
MakeConfig(m, pat) ==
    [case_sensitive   |-> OptPresent(m, "sensitive")
                            \/ \E i \in DOMAIN pat : IsUppercase(pat[i]),
     search_full_path |-> ~OptPresent(m, "filename"),
     search_hidden    |-> OptPresent(m, "hidden"),
     colored          |-> ~OptPresent(m, "no-color"),
     follow_links     |-> OptPresent(m, "follow")]

\* the negation in case_insensitive(!..) left out
MakeRegexInverted(pat, cfg) == [pat |-> pat, insensitive |-> cfg.case_sensitive]

\* RegexBuilder::new(pattern).case_insensitive(!config.case_sensitive)
MakeRegex(pat, cfg) == [pat |-> pat, insensitive |-> ~cfg.case_sensitive]

NoConfig == [case_sensitive |-> FALSE, search_full_path |-> FALSE,
             search_hidden |-> FALSE, colored |-> FALSE, follow_links |-> FALSE]
NoRegex  == [pat |-> <<>>, insensitive |-> FALSE]

\* error(message): one line on stderr, exit status 1
ErrorExit ==
    /\ stderr' = stderr + 1
    /\ exit_code' = 1
    /\ pc' = "exit"

\* opts.parse fails
ParseError ==
    /\ pc = "main"
    /\ ~Parse(argv).ok
    /\ ErrorExit
    /\ UNCHANGED <<argv, cwd, fs, config, pattern, start, stack, yielded, printed, usage>>

\* help that ends with status 0
HelpExitsZero ==
    /\ pc = "main"
    /\ Parse(argv).ok
    /\ OptPresent(Parse(argv), "help")
    /\ usage' = TRUE
    /\ exit_code' = 0
    /\ pc' = "exit"
    /\ UNCHANGED <<argv, cwd, fs, config, pattern, start, stack, yielded, printed, stderr>>

\* -h: the usage text, exit status 1
Help ==
    /\ pc = "main"
    /\ Parse(argv).ok
    /\ OptPresent(Parse(argv), "help")
    /\ usage' = TRUE
    /\ exit_code' = 1
    /\ pc' = "exit"
    /\ UNCHANGED <<argv, cwd, fs, config, pattern, start, stack, yielded, printed, stderr>>

\* env::current_dir fails
CwdError ==
    /\ pc = "main"
    /\ Parse(argv).ok
    /\ ~OptPresent(Parse(argv), "help")
    /\ ~cwd.ok
    /\ ErrorExit
    /\ UNCHANGED <<argv, cwd, fs, config, pattern, start, stack, yielded, printed, usage>>

\* the pattern does not compile
PatternError ==
    /\ pc = "main"
    /\ Parse(argv).ok
    /\ ~OptPresent(Parse(argv), "help")
    /\ cwd.ok
    /\ ~Compiles(PatternOf(Parse(argv)))
    /\ config' = MakeConfig(Parse(argv), PatternOf(Parse(argv)))
    /\ ErrorExit
    /\ UNCHANGED <<argv, cwd, fs, pattern, start, stack, yielded, printed, usage>>

\* everything is in order: scan is called and its walker is built
StartScan ==
    /\ pc = "main"
    /\ Parse(argv).ok
    /\ ~OptPresent(Parse(argv), "help")
    /\ cwd.ok
    /\ Compiles(PatternOf(Parse(argv)))
    /\ config' = MakeConfig(Parse(argv), PatternOf(Parse(argv)))
    /\ pattern' = MakeRegex(PatternOf(Parse(argv)), config')
    /\ start' = TRUE
    /\ stack' = <<>>
    /\ pc' = "scan"
    /\ UNCHANGED <<argv, cwd, fs, yielded, printed, usage, stderr, exit_code>>

\* a step that writes its line in front of the earlier ones
StepPrepends(cls, prints) ==
    /\ ~Exhausted(start, stack)
    /\ LET r == ScanStep(fs, cwd.path, pattern, config, start, stack) IN
       /\ r.cls = cls
       /\ (r.lines # <<>>) = prints
       /\ start' = FALSE
       /\ stack' = r.stack
       /\ yielded' = Append(yielded, r.item)
       /\ printed' = r.lines \o printed
    /\ UNCHANGED <<argv, cwd, fs, pc, config, pattern, usage, stderr, exit_code>>

\* one item of the walk, of the class cls
Step(cls, prints) ==
    /\ ~Exhausted(start, stack)
    /\ LET r == ScanStep(fs, cwd.path, pattern, config, start, stack) IN
       /\ r.cls = cls
       /\ (r.lines # <<>>) = prints
       /\ start' = FALSE
       /\ stack' = r.stack
       /\ yielded' = Append(yielded, r.item)
       /\ printed' = printed \o r.lines
    /\ UNCHANGED <<argv, cwd, fs, pc, config, pattern, usage, stderr, exit_code>>

\* an error of the walk that ends the run (e.unwrap() for e.ok())
SkipErrorAborts ==
    /\ pc = "scan"
    /\ ~Exhausted(start, stack)
    /\ ScanStep(fs, cwd.path, pattern, config, start, stack).cls = "error"
    /\ pc' = "exit"
    /\ exit_code' = 101
    /\ UNCHANGED <<argv, cwd, fs, config, pattern, start, stack, yielded, printed, usage, stderr>>

\* .filter_map(|e| e.ok()) drops an error
SkipError ==
    /\ pc = "scan"
    /\ Step("error", FALSE)

\* filter_entry drops a hidden entry and does not descend into it
PruneHidden ==
    /\ pc = "scan"
    /\ Step("pruned", FALSE)

\* .filter(..) drops the root
SkipRoot ==
    /\ pc = "scan"
    /\ Step("root", FALSE)

\* the loop body prints the entry
VisitPrint ==
    /\ pc = "scan"
    /\ Step("entry", TRUE)

\* the loop body prints nothing for the entry
VisitSilent ==
    /\ pc = "scan"
    /\ Step("entry", FALSE)

\* the for loop ends, scan and main return
Finish ==
    /\ pc = "scan"
    /\ Exhausted(start, stack)
    /\ exit_code' = 0
    /\ pc' = "exit"
    /\ UNCHANGED <<argv, cwd, fs, config, pattern, start, stack, yielded, printed, usage, stderr>>

Next ==
    \/ ParseError
    \/ Help
    \/ CwdError
    \/ PatternError
    \/ StartScan
    \/ SkipError
    \/ PruneHidden
    \/ SkipRoot
    \/ VisitPrint
    \/ VisitSilent
    \/ Finish

-----------------------------------------------------------------------------
(* The inputs: command lines, current directories and trees *)

MaxArgs  == 2    \* arguments on a command line drawn from Tokens
MaxNodes == 2    \* nodes of a generated tree

FlagS      == <<"-","s">>
FlagF      == <<"-","f">>
FlagFollow == <<"-","F">>
FlagN      == <<"-","n">>
FlagH      == <<"-","h">>
FlagBogus  == <<"-","-","b","o","g","u","s">>
PatLower   == <<"r","e","a","d","m","e">>
PatMixed   == <<"R","e","a","d","m","e">>
PatAnchor  == <<"^","r","e","a","d","m","e">>
PatBroken  == <<"(">>

Tokens == {FlagS, FlagF, LongHidden, FlagFollow, FlagN, FlagH, FlagBogus,
           PatLower, PatMixed, PatAnchor, PatBroken}

SeqsUpTo(S, n) == UNION {[1..k -> S] : k \in 0..n}

CommandLines == SeqsUpTo(Tokens, MaxArgs)

\* the command lines every generated tree is scanned with
TreeCommandLines ==
    {<<>>, <<LongHidden>>, <<FlagFollow>>, <<FlagFollow, LongHidden>>,
     <<FlagF>>, <<FlagF, FlagFollow>>, <<PatLower>>, <<FlagF, PatLower>>,
     <<FlagS, PatLower>>, <<FlagF, LongHidden, PatAnchor>>}

DirHome    == <<"h","o","m","e">>
DirUser    == <<"u">>
DirConfig  == <<".","c","o","n","f","i","g">>
DotGit     == <<".","g","i","t">>
DirA       == <<"a">>
DirB       == <<"b">>
DotHidden  == <<".","h","i","d","d","e","n">>
SecretMd   == <<"s","e","c","r","e","t",".","m","d">>
License    == <<"L","I","C","E","N","S","E">>
DotBad     == <<".", BadByte>>
BadName    == <<"r", BadByte>>

Roots == {<<DirHome, DirUser>>, <<DirHome, DirConfig>>}

Node(name, type, parent) == [name |-> name, type |-> type, parent |-> parent]

\* a/b/README.md, a/.hidden/secret.md, LICENSE, readme.md, Readme.md
ReadmeTree ==
    <<Node(DirA, "dir", 0), Node(DirB, "dir", 1), Node(ReadmeUpper, "file", 2),
      Node(DotHidden, "dir", 1), Node(SecretMd, "file", 4),
      Node(License, "file", 0), Node(ReadmeLower, "file", 0),
      Node(ReadmeMixed, "file", 0)>>

\* names that are not UTF-8, a link to a directory and an unreadable one
OddTree ==
    <<Node(DotBad, "dir", 0), Node(ReadmeLower, "file", 1),
      Node(BadName, "file", 0), Node(DirA, "linkdir", 0),
      Node(DirB, "baddir", 0), Node(ReadmeMixed, "file", 5),
      Node(ReadmeUpper, "linkfile", 0)>>

ScenarioTrees == {ReadmeTree, OddTree}

GenNames == {ReadmeUpper, DotGit}

\* a tree: parents come first and are directories, siblings differ in name
WellFormed(f) ==
    \A i \in DOMAIN f :
        /\ f[i].parent < i
        /\ f[i].parent > 0 => f[f[i].parent].type \in {"dir", "baddir"}
        /\ \A j \in DOMAIN f :
               (j # i /\ f[j].parent = f[i].parent) => f[j].name # f[i].name

GenTrees ==
    UNION {{f \in [1..n -> [name : GenNames, type : NodeTypes, parent : 0..(n - 1)]] :
               WellFormed(f)} : n \in 0..MaxNodes}

Init ==
    /\ \/ /\ argv \in CommandLines
          /\ fs \in ScenarioTrees
          /\ cwd \in [ok : {TRUE}, path : Roots]
       \/ /\ argv \in TreeCommandLines
          /\ fs \in GenTrees
          /\ cwd \in [ok : {TRUE}, path : Roots]
       \/ /\ argv \in CommandLines
          /\ fs = <<>>
          /\ cwd = [ok |-> FALSE, path |-> <<>>]
    /\ pc = "main"
    /\ config = NoConfig
    /\ pattern = NoRegex
    /\ start = FALSE
    /\ stack = <<>>
    /\ yielded = <<>>
    /\ printed = <<>>
    /\ usage = FALSE
    /\ stderr = 0
    /\ exit_code = NoExit

Spec == Init /\ [][Next]_vars

-----------------------------------------------------------------------------
(* What the claims speak about: the entries of the tree, described from    *)
(* the tree itself and not from the walk.                                  *)

RECURSIVE RelPath(_, _)
\* the path of node i relative to the current directory
RelPath(f, i) == IF i = 0 THEN <<>> ELSE Append(RelPath(f, f[i].parent), f[i].name)

RECURSIVE Ancestors(_, _)
\* the directories strictly between the current directory and node i
Ancestors(f, i) ==
    IF i = 0 \/ f[i].parent = 0 THEN {}
    ELSE {f[i].parent} \cup Ancestors(f, f[i].parent)

\* a place is a node, or the k-th file of ExtDir seen through the link i
Place(i, k) == [node |-> i, ext |-> k]
Places(f) ==
    {Place(i, 0) : i \in DOMAIN f}
        \cup {Place(i, k) : i \in {j \in DOMAIN f : f[j].type = "linkdir"},
                            k \in DOMAIN ExtNames}

PlacePath(f, pl) ==
    IF pl.ext = 0 THEN RelPath(f, pl.node)
    ELSE Append(RelPath(f, pl.node), ExtNames[pl.ext])

Utf8(path) == \A i \in DOMAIN path : \A j \in DOMAIN path[i] : path[i][j] # BadByte

\* the name begins with the byte "."
DotByte(name) == name # <<>> /\ name[1] = "."
\* the name is text and its first character is "."
DotName(name) == Utf8(<<name>>) /\ DotByte(name)

\* some component of the path below the root begins with "."
UnderDotName(path) == \E j \in DOMAIN path : DotByte(path[j])
\* some component other than the last is a dot name
BelowDotName(path) == \E j \in 1..(Len(path) - 1) : DotName(path[j])

Texts(lines) == {lines[k].text : k \in DOMAIN lines}
Count(lines, text) == Cardinality({k \in DOMAIN lines : lines[k].text = text})
YieldedPaths == {yielded[k].ent.path : k \in DOMAIN yielded}

Scanning == pc = "scan" \/ (pc = "exit" /\ exit_code = 0)
ScanDone == pc = "exit" /\ exit_code = 0

\* the filter of the walk lets the name through
Kept(name) == config.search_hidden \/ ~DotName(name)

\* the walk reaches node i: nothing on the way to it was filtered out,
\* unreadable or in error
NodeWalked(i) ==
    /\ Kept(FileName(cwd.path))
    /\ \A a \in Ancestors(fs, i) : fs[a].type = "dir" /\ Kept(fs[a].name)
    /\ Kept(fs[i].name)
    /\ fs[i].type # "gone"
    /\ config.follow_links => fs[i].type \notin {"linkbroken", "linkloop"}

Walked(pl) ==
    /\ NodeWalked(pl.node)
    /\ pl.ext > 0 => config.follow_links /\ Kept(ExtNames[pl.ext])

\* the place is a regular file, possibly behind a symbolic link
FileLike(pl) == pl.ext > 0 \/ fs[pl.node].type \in {"file", "linkfile"}

\* the pattern is found in the string the mode selects for the place
Matching(pl) ==
    LET path == PlacePath(fs, pl) IN
    /\ Utf8(path)
    /\ IF config.search_full_path
       THEN Find(pattern, JoinPath(path))
       ELSE FileLike(pl) /\ Find(pattern, path[Len(path)])

HasArg(a) == \E i \in DOMAIN argv : argv[i] = a

-----------------------------------------------------------------------------
C2_RootNeverPrinted ==
    \A k \in DOMAIN printed :
        /\ printed[k].text # <<>>
        /\ printed[k].text # JoinPath(cwd.path)
        /\ \E pl \in Places(fs) :
               /\ PlacePath(fs, pl) # <<>>
               /\ PathToStr(PlacePath(fs, pl)) = Some(printed[k].text)

\* a finished scan with the empty pattern, follow_links and search_hidden
\* that yielded the root and printed entries
C2_Witness ==
    /\ ScanDone /\ pattern.pat = <<>>
    /\ config.follow_links /\ config.search_hidden
    /\ cwd.path \in YieldedPaths
    /\ printed # <<>>

\* the run c3 is about: no argument at all but the colour switch
DefaultRun == ScanDone /\ \A i \in DOMAIN argv : argv[i] = FlagN

\* an entry that is not hidden: no component of its path starts with ".";
\* and that can be read: it exists and no directory above it is unreadable
PlainEntry(i) ==
    /\ ~UnderDotName(RelPath(fs, i))
    /\ Utf8(RelPath(fs, i))
    /\ fs[i].type # "gone"
    /\ \A a \in Ancestors(fs, i) : fs[a].type = "dir"

(* C3: with the empty pattern and default flags every non-hidden entry is  *)
(* printed exactly once, by its full relative path.                        *)
C3_EveryPlainEntryOnce ==
    DefaultRun =>
        \A i \in DOMAIN fs :
            PlainEntry(i) => Count(printed, JoinPath(RelPath(fs, i))) = 1

\* the same, for a current directory whose own name does not start with "."
C3_HoldsBelowPlainRoot ==
    (DefaultRun /\ ~DotName(FileName(cwd.path))) =>
        \A i \in DOMAIN fs :
            PlainEntry(i) => Count(printed, JoinPath(RelPath(fs, i))) = 1

\* the output of the same scan in full-path mode
FullPathRun ==
    ScanOutput(fs, cwd.path, pattern, [config EXCEPT !.search_full_path = TRUE])

\* the line stands for a place whose path leads to a regular file (as
\* Path::is_file sees it: through a symbolic link too) and whose base name
\* the pattern is found in
IsFileLikeLine(line) ==
    \E pl \in Places(fs) :
        LET path == PlacePath(fs, pl) IN
        /\ PathToStr(path) = Some(line.text)
        /\ FileLike(pl)
        /\ Find(pattern, path[Len(path)])

\* the line stands for a directory or for a link to one
IsDirectoryLine(line) ==
    \E i \in DOMAIN fs :
        /\ PathToStr(RelPath(fs, i)) = Some(line.text)
        /\ fs[i].type \in {"dir", "baddir", "linkdir", "linkloop"}

Anchored(p) == \E i \in DOMAIN p : p[i] = "^"

(* C4 as stated: for every pattern, what filename-only mode prints is a    *)
(* subset of what full-path mode prints (the pattern occurs in the base    *)
(* name of every file it prints), every printed entry is a regular file    *)
(* whose base name matches, and no directory is printed.                   *)
C4_FilenameOnlySubsetOfFullPath ==
    (ScanDone /\ ~config.search_full_path) =>
        /\ Texts(printed) \subseteq Texts(FullPathRun)
        /\ \A k \in DOMAIN printed : IsFileLikeLine(printed[k])
        /\ \A k \in DOMAIN printed : ~IsDirectoryLine(printed[k])

(* C4 amended: for a pattern without the start anchor "^", what            *)
(* filename-only mode prints is a subset of what full-path mode prints; in *)
(* filename-only mode every printed entry is a regular file, its base name *)
(* matches, and no directory (or link to a directory) is printed.          *)
C4_FilenameOnlyAmended ==
    (ScanDone /\ ~config.search_full_path) =>
        /\ ~Anchored(pattern.pat) => Texts(printed) \subseteq Texts(FullPathRun)
        /\ \A k \in DOMAIN printed : IsFileLikeLine(printed[k])
        /\ \A k \in DOMAIN printed : ~IsDirectoryLine(printed[k])

\* a filename-only scan that printed a file and passed over a directory
\* whose name the pattern is found in
C4_Witness ==
    /\ ScanDone /\ ~config.search_full_path /\ printed # <<>>
    /\ pattern.pat # <<>>
    /\ \E i \in DOMAIN fs :
           /\ fs[i].type = "dir"
           /\ Find(pattern, fs[i].name)
           /\ (cwd.path \o RelPath(fs, i)) \in YieldedPaths

PatternTokens == {PatLower, PatMixed, PatAnchor, PatBroken}

\* the first argument that is not a flag, the empty pattern if there is none
GivenPattern ==
    IF \E i \in DOMAIN argv : argv[i] \in PatternTokens
    THEN argv[CHOOSE i \in DOMAIN argv :
                 /\ argv[i] \in PatternTokens
                 /\ \A j \in 1..(i - 1) : argv[j] \notin PatternTokens]
    ELSE <<>>

HasUppercase(p) == \E i \in DOMAIN p : p[i] \in {UpperChars[j] : j \in DOMAIN UpperChars}

(* C5: smart case.  case_sensitive is (the -s flag) or (an uppercase       *)
(* character in the pattern); the compiled pattern is case-insensitive     *)
(* exactly when case_sensitive is false; without the flag "readme" finds   *)
(* README.md and readme.md, "Readme" finds Readme.md but not readme.md,    *)
(* in the matcher and in what a scan of such files prints.                 *)
C5_SmartCase ==
    /\ Scanning =>
           /\ config.case_sensitive = (HasArg(FlagS) \/ HasUppercase(GivenPattern))
           /\ pattern.pat = GivenPattern
           /\ pattern.insensitive = ~config.case_sensitive
           /\ (~HasArg(FlagS) /\ GivenPattern = PatLower) =>
                  Find(pattern, ReadmeUpper) /\ Find(pattern, ReadmeLower)
           /\ (~HasArg(FlagS) /\ GivenPattern = PatMixed) =>
                  Find(pattern, ReadmeMixed) /\ ~Find(pattern, ReadmeLower)
    /\ (ScanDone /\ fs = ReadmeTree /\ ~HasArg(FlagS) /\ Kept(FileName(cwd.path))) =>
           /\ GivenPattern = PatLower =>
                  {ReadmeLower, ReadmeMixed, JoinPath(<<DirA, DirB, ReadmeUpper>>)}
                      \subseteq Texts(printed)
           /\ GivenPattern = PatMixed =>
                  ReadmeMixed \in Texts(printed) /\ ReadmeLower \notin Texts(printed)

\* "Readme" without -s printed Readme.md and not readme.md, both in the tree
C5_Witness ==
    /\ ScanDone /\ fs = ReadmeTree /\ ~HasArg(FlagS)
    /\ GivenPattern = PatMixed
    /\ ReadmeMixed \in Texts(printed)
    /\ ReadmeLower \notin Texts(printed)

\* the output of the run that differs only in the -s flag
OtherSensitivityRun ==
    LET m   == Parse(argv)
        m2  == [m EXCEPT !.present = IF "sensitive" \in @ THEN @ \ {"sensitive"}
                                     ELSE @ \cup {"sensitive"}]
        cfg == MakeConfig(m2, PatternOf(m))
    IN ScanOutput(fs, cwd.path, MakeRegex(PatternOf(m), cfg), cfg)

RECURSIVE IsSubseq(_, _)
\* a is b with some elements left out
IsSubseq(a, b) ==
    IF a = <<>> THEN TRUE
    ELSE IF b = <<>> THEN FALSE
    ELSE IF Head(a) = Head(b) THEN IsSubseq(Tail(a), Tail(b))
    ELSE IsSubseq(a, Tail(b))

IsFlag(a) == a # <<>> /\ a[1] = "-"
HelpAsked == HasArg(FlagH)
Malformed ==
    \/ HasArg(FlagBogus)
    \/ \E i, j \in DOMAIN argv : i # j /\ argv[i] = argv[j] /\ IsFlag(argv[i])
BadPattern == GivenPattern = PatBroken
Fatal == Malformed \/ HelpAsked \/ ~cwd.ok \/ BadPattern

TextOfItem(it) == JoinPath(StripPrefix(it.ent.path, cwd.path).rel)

ItemsAt(path) == {k \in DOMAIN yielded : yielded[k].ent.path = path}

(* C9: symbolic link policy.  A link to a directory that the walk reaches  *)
(* is one item of the walk, marked as a link and, when printed in colour,  *)
(* painted as a link; without follow_links nothing below it is yielded or  *)
(* printed; with follow_links the files of its target are yielded under    *)
(* the path of the link and printed when the pattern is found.             *)
C9_SymlinkPolicy ==
    ScanDone =>
        \A i \in DOMAIN fs :
            (fs[i].type = "linkdir" /\ NodeWalked(i)) =>
                LET rel  == RelPath(fs, i)
                    here == ItemsAt(cwd.path \o rel)
                IN
                /\ Cardinality(here) = 1
                /\ \A k \in here :
                       /\ yielded[k].ok /\ yielded[k].ent.link
                       /\ yielded[k].ent.ftype
                              = (IF config.follow_links THEN "dir" ELSE "symlink")
                /\ Count(printed, JoinPath(rel))
                       = (IF config.search_full_path /\ Matching(Place(i, 0))
                          THEN 1 ELSE 0)
                /\ \A k \in DOMAIN printed :
                       (printed[k].text = JoinPath(rel) /\ config.colored)
                           => printed[k].style = "Purple"
                /\ \A e \in DOMAIN ExtNames :
                       LET below == Append(rel, ExtNames[e]) IN
                       IF config.follow_links
                       THEN /\ Cardinality(ItemsAt(cwd.path \o below)) = 1
                            /\ Count(printed, JoinPath(below))
                                   = (IF Matching(Place(i, e)) THEN 1 ELSE 0)
                       ELSE /\ ItemsAt(cwd.path \o below) = {}
                            /\ JoinPath(below) \notin Texts(printed)

\* with follow_links, a file of the directory a link leads to was printed
\* under the path of the link, after the link itself
C9_Witness ==
    /\ ScanDone /\ config.follow_links /\ config.colored
    /\ \E i \in DOMAIN fs :
           /\ fs[i].type = "linkdir"
           /\ \E k, l \in DOMAIN printed :
                  /\ k < l
                  /\ printed[k] = [text |-> JoinPath(RelPath(fs, i)), style |-> "Purple"]
                  /\ printed[l].text = JoinPath(Append(RelPath(fs, i), ExtNames[1]))

RECURSIVE LinesOfItems(_)
\* the lines the loop body prints for a sequence of walker items
LinesOfItems(items) ==
    IF items = <<>> THEN <<>>
    ELSE LET it == Head(items) IN
         (IF it.ok /\ KeepEntry(config, it.ent) /\ NotRoot(it.ent, cwd.path)
          THEN ScanBody(fs, cwd.path, pattern, config, it.ent)
          ELSE <<>>) \o LinesOfItems(Tail(items))

====
